---- MODULE Spec2Model ----
(***************************************************************************)
(* A model of gbce/gbce.py: Stock (CommonTypeStock, PreferredTypeStock),   *)
(* Trade and StockExchange.                                                *)
(*                                                                         *)
(* Numbers are exact rationals <<n, d>> in lowest terms with d > 0; the    *)
(* rounding of Python's floats is not modelled.                            *)
(* A Python value is a record [kind, val, exc, index]:                     *)
(*   kind = "num"   : the number val                                       *)
(*   kind = "none"  : None                                                 *)
(*   kind = "raise" : the call raised the exception exc                    *)
(*   kind = "root"  : the number  val ** (1 / index)                       *)
(* A symbol is a sequence of one-character strings, so that str.upper()    *)
(* is computed character by character.                                     *)
(* Time is counted in ticks of one minute.                                 *)
(***************************************************************************)
EXTENDS Integers, Sequences, FiniteSets

VARIABLES trades, clock, calls, ret

vars == <<trades, clock, calls, ret>>

(* ------------------------------ bounds --------------------------------- *)

MaxTrades == 3

MaxClock == 1

MaxDuration == 1

MaxPrice == 3

(* ------------------------- exact arithmetic ---------------------------- *)

Abs(x) == IF x < 0 THEN -x ELSE x

RECURSIVE GCD(_, _)
GCD(a, b) == IF b = 0 THEN a ELSE GCD(b, a % b)

Norm(n, d) ==
    LET g == GCD(Abs(n), Abs(d))
        s == IF d < 0 THEN -1 ELSE 1
    IN  <<s * (n \div g), s * (d \div g)>>

Int2Q(n) == <<n, 1>>

QMul(a, b) == Norm(a[1] * b[1], a[2] * b[2])

QDiv(a, b) == Norm(a[1] * b[2], a[2] * b[1])

(* --------------------------- Python values ----------------------------- *)

Num(q) == [kind |-> "num", val |-> q, exc |-> "", index |-> 1]

NoneVal == [kind |-> "none", val |-> <<0, 1>>, exc |-> "", index |-> 1]

Raise(e) == [kind |-> "raise", val |-> <<0, 1>>, exc |-> e, index |-> 1]

Root(q, n) == [kind |-> "root", val |-> q, exc |-> "", index |-> n]

PyInt(n) == Num(Int2Q(n))

\* a * b
PyMul(a, b) ==
    IF a.kind = "raise" THEN a
    ELSE IF b.kind = "raise" THEN b
    ELSE IF a.kind # "num" \/ b.kind # "num" THEN Raise("TypeError")
    ELSE Num(QMul(a.val, b.val))

\* a / b (true division)
PyDiv(a, b) ==
    IF a.kind = "raise" THEN a
    ELSE IF b.kind = "raise" THEN b
    ELSE IF a.kind # "num" \/ b.kind # "num" THEN Raise("TypeError")
    ELSE IF b.val[1] = 0 THEN Raise("ZeroDivisionError")
    ELSE Num(QDiv(a.val, b.val))

\* a ** (1 / n), n >= 1
PyRoot(a, n) ==
    IF a.kind = "raise" THEN a
    ELSE IF a.kind # "num" THEN Raise("TypeError")
    ELSE Root(a.val, n)

(* ------------------------------ symbols -------------------------------- *)

\* str.upper() on one character, for the letters the symbols are made of
UpperChar(c) ==
    CASE c = "a" -> "A"
      [] c = "e" -> "E"
      [] c = "l" -> "L"
      [] c = "o" -> "O"
      [] c = "p" -> "P"
      [] c = "t" -> "T"
      [] OTHER -> c

\* str.upper()
Upper(s) == [i \in DOMAIN s |-> UpperChar(s[i])]

(* ------------------------------- Stock --------------------------------- *)

\* Stock.__init__
Stock(kind, symbol, par_value, last_dividend, fixed_dividend) ==
    [kind |-> kind,
     symbol |-> Upper(symbol),
     last_dividend |-> last_dividend,
     par_value |-> par_value,
     fixed_dividend |-> fixed_dividend]

CommonTypeStock(symbol, par_value, last_dividend, fixed_dividend) ==
    Stock("common", symbol, par_value, last_dividend, fixed_dividend)

PreferredTypeStock(symbol, par_value, last_dividend, fixed_dividend) ==
    Stock("preferred", symbol, par_value, last_dividend, fixed_dividend)

NoStock == Stock("none", <<>>, NoneVal, NoneVal, NoneVal)

\* CommonTypeStock.dividend_yield
common_dividend_yield(self, price) == PyDiv(self.last_dividend, PyInt(price))

\* PreferredTypeStock.dividend_yield
preferred_dividend_yield(self, price) ==
    PyDiv(PyMul(self.fixed_dividend, self.par_value), PyInt(price))

\* dividend_yield with the common formula whatever the class of self
dividend_yield_undispatched(self, price) == common_dividend_yield(self, price)

\* dispatch on the class of self
dividend_yield(self, price) ==
    IF self.kind = "common" THEN common_dividend_yield(self, price)
    ELSE preferred_dividend_yield(self, price)

\* pe_ratio as price / dividend yield
pe_ratio_price_over_yield(self, price) ==
    PyDiv(PyInt(price), dividend_yield(self, price))

\* Stock.pe_ratio
pe_ratio(self, price) == PyDiv(PyInt(1), dividend_yield(self, price))

(* ------------------------------- Trade --------------------------------- *)

\* Trade.__init__ with quantity and price stored in each other's place
Trade_swapped(stock, quantity, trade_type, price, now) ==
    [stock |-> stock,
     quantity |-> price,
     trade_type |-> trade_type,
     price |-> quantity,
     timestamp |-> now]

\* Trade.__init__; now is the value datetime.utcnow() returns
Trade(stock, quantity, trade_type, price, now) ==
    [stock |-> stock,
     quantity |-> quantity,
     trade_type |-> trade_type,
     price |-> price,
     timestamp |-> now]

(* --------------------------- StockExchange ----------------------------- *)

\* record_trade inserting at the head of the log
record_trade_at_head(trs, trade) == <<trade>> \o trs

\* StockExchange.record_trade
record_trade(trs, trade) == Append(trs, trade)

\* sum(trade.price * trade.quantity for trade in trades)
RECURSIVE SumPriceQuantity(_)
SumPriceQuantity(trs) ==
    IF trs = <<>> THEN 0
    ELSE Head(trs).price * Head(trs).quantity + SumPriceQuantity(Tail(trs))

\* sum(trade.quantity for trade in trades)
RECURSIVE SumQuantity(_)
SumQuantity(trs) ==
    IF trs = <<>> THEN 0 ELSE Head(trs).quantity + SumQuantity(Tail(trs))

\* StockExchange.vwap
vwap(trs) == PyDiv(PyInt(SumPriceQuantity(trs)), PyInt(SumQuantity(trs)))

\* the condition without symbol.upper()
InWindow_exact_case(trade, symbol, duration, now) ==
    /\ trade.stock.symbol = symbol
    /\ trade.timestamp >= now - duration

\* the condition of the list comprehension; now is the value of the
\* datetime.utcnow() call made for this trade
InWindow(trade, symbol, duration, now) ==
    /\ trade.stock.symbol = Upper(symbol)
    /\ trade.timestamp >= now - duration

\* the positions of the log the list comprehension keeps; nows[i] is the
\* clock reading while trade i is examined
Selected(trs, symbol, duration, nows) ==
    {i \in 1..Len(trs) : InWindow(trs[i], symbol, duration, nows[i])}

\* the list the comprehension builds, in log order
Sublist(trs, S) ==
    LET F[i \in 0..Len(trs)] ==
            IF i = 0 THEN <<>>
            ELSE IF i \in S THEN Append(F[i - 1], trs[i]) ELSE F[i - 1]
    IN  F[Len(trs)]

\* volume_weight_stock_price without its 'if not trades' return
volume_weight_stock_price_unguarded(trs, symbol, duration, nows) ==
    LET sel == Selected(trs, symbol, duration, nows)
        lst == Sublist(trs, sel)
    IN  [result |-> vwap(lst), vwap_calls |-> <<lst>>, selected |-> sel]

\* StockExchange.volume_weight_stock_price: the value returned, the
\* arguments of the calls of vwap it made, and the positions it selected
volume_weight_stock_price(trs, symbol, duration, nows) ==
    LET sel == Selected(trs, symbol, duration, nows)
        lst == Sublist(trs, sel)
    IN  IF lst = <<>>
        THEN [result |-> NoneVal, vwap_calls |-> <<>>, selected |-> sel]
        ELSE [result |-> vwap(lst), vwap_calls |-> <<lst>>, selected |-> sel]

\* itertools.groupby(trades, key=attrgetter('stock.symbol')): the runs of
\* consecutive trades with equal key, in log order
groupby(trs) ==
    LET F[i \in 0..Len(trs)] ==
            IF i = 0 THEN <<>>
            ELSE IF i > 1 /\ trs[i].stock.symbol = trs[i - 1].stock.symbol
                 THEN [F[i - 1] EXCEPT ![Len(F[i - 1])] = Append(@, trs[i])]
                 ELSE Append(F[i - 1], <<trs[i]>>)
    IN  F[Len(trs)]

\* reduce(mul, prices)
RECURSIVE ReduceMul(_)
ReduceMul(prices) ==
    IF Len(prices) = 1 THEN prices[1]
    ELSE PyMul(ReduceMul(SubSeq(prices, 1, Len(prices) - 1)), prices[Len(prices)])

\* the first exception raised while the list of prices is built, if any
RECURSIVE FirstRaise(_)
FirstRaise(prices) ==
    IF prices = <<>> THEN NoneVal
    ELSE IF Head(prices).kind = "raise" THEN Head(prices)
    ELSE FirstRaise(Tail(prices))

\* StockExchange.all_share_index
all_share_index(trs) ==
    IF trs = <<>>
    THEN [result |-> NoneVal, vwap_calls |-> <<>>, selected |-> {}]
    ELSE LET stock_groups == groupby(trs)
             prices == [g \in DOMAIN stock_groups |-> vwap(stock_groups[g])]
             raised == FirstRaise(prices)
         IN  [result |-> IF raised.kind = "raise" THEN raised
                         ELSE PyRoot(ReduceMul(prices), Len(prices)),
              vwap_calls |-> stock_groups,
              selected |-> {}]

(* ------------------------------ inputs --------------------------------- *)

tea == <<"t", "e", "a">>

TEA == <<"T", "E", "A">>

Pop == <<"P", "o", "p">>

POP == <<"P", "O", "P">>

ale == <<"a", "l", "e">>

\* the arguments of the Trade(...) calls the caller makes: the symbol its
\* Stock was constructed with, quantity, trade type and price
TradeArgs ==
    {[symbol |-> tea, quantity |-> 1, trade_type |-> "buy", price |-> 1],
     [symbol |-> TEA, quantity |-> 2, trade_type |-> "sell", price |-> 3],
     [symbol |-> Pop, quantity |-> 1, trade_type |-> "buy", price |-> 3],
     [symbol |-> POP, quantity |-> 0, trade_type |-> "sell", price |-> 0]}

QuerySymbols == {tea, Pop}

\* the clock readings of one call on the log trs that starts at time c:
\* nows[i] is the value of the datetime.utcnow() call made for trade i.
\* They never decrease; the call is made only for a trade of the queried
\* symbol, and for any other trade nows[i] repeats the reading before it.
NowSeqs(trs, symbol, c) ==
    {f \in [1..Len(trs) -> c..MaxClock] :
        \A i \in 1..Len(trs) :
            LET before == IF i = 1 THEN c ELSE f[i - 1]
            IN  IF trs[i].stock.symbol = Upper(symbol)
                THEN before <= f[i]
                ELSE before = f[i]}

StockSymbols == {ale, POP}

LastDividends == {NoneVal, PyInt(0), PyInt(8), PyInt(23)}

ParValues == {PyInt(60), PyInt(100)}

FixedDividends == {NoneVal, PyInt(0), Num(<<1, 50>>)}

StockKinds == {"common", "preferred"}

(* ------------------------------ caller --------------------------------- *)

\* ret is the outcome of the caller's last call, with its arguments
Idle ==
    [op |-> "idle", symbol |-> <<>>, stock |-> NoStock, quantity |-> 0,
     trade_type |-> "buy", price |-> 0, now |-> 0, duration |-> 0,
     nows |-> <<>>, result |-> NoneVal, vwap_calls |-> <<>>, selected |-> {}]

Init ==
    /\ trades = <<>>
    /\ clock = 0
    /\ calls = <<>>
    /\ ret = Idle

\* exchange.record_trade(Trade(stock, ...)); the Trade was constructed at
\* some time now <= clock
RecordTrade ==
    /\ ret.op = "idle"
    /\ Len(trades) < MaxTrades
    /\ \E a \in TradeArgs, now \in 0..clock :
          LET stock == CommonTypeStock(a.symbol, PyInt(100), PyInt(8), NoneVal)
              trade == Trade(stock, a.quantity, a.trade_type, a.price, now)
          IN  /\ trades' = record_trade(trades, trade)
              /\ calls' = Append(calls, trade)
              /\ ret' = [Idle EXCEPT !.op = "record_trade",
                                     !.symbol = a.symbol,
                                     !.stock = stock,
                                     !.quantity = a.quantity,
                                     !.trade_type = a.trade_type,
                                     !.price = a.price,
                                     !.now = now]
    /\ UNCHANGED clock

\* exchange.volume_weight_stock_price(symbol, duration); the clock may
\* advance between the datetime.utcnow() calls of the list comprehension
VolumeWeightStockPrice ==
    /\ ret.op = "idle"
    /\ \E symbol \in QuerySymbols, duration \in 0..MaxDuration :
       \E nows \in NowSeqs(trades, symbol, clock) :
          LET r == volume_weight_stock_price(trades, symbol, duration, nows)
          IN  /\ ret' = [Idle EXCEPT !.op = "volume_weight_stock_price",
                                     !.symbol = symbol,
                                     !.duration = duration,
                                     !.now = clock,
                                     !.nows = nows,
                                     !.result = r.result,
                                     !.vwap_calls = r.vwap_calls,
                                     !.selected = r.selected]
              /\ clock' = IF trades = <<>> THEN clock ELSE nows[Len(trades)]
    /\ UNCHANGED <<trades, calls>>

\* exchange.all_share_index()
AllShareIndex ==
    /\ ret.op = "idle"
    /\ LET r == all_share_index(trades)
       IN  ret' = [Idle EXCEPT !.op = "all_share_index",
                               !.now = clock,
                               !.result = r.result,
                               !.vwap_calls = r.vwap_calls]
    /\ UNCHANGED <<trades, clock, calls>>

\* time passes between two calls
Tick ==
    /\ ret.op = "idle"
    /\ clock < MaxClock
    /\ clock' = clock + 1
    /\ UNCHANGED <<trades, calls, ret>>

\* the caller takes the outcome and goes on to its next call
Continue ==
    /\ ret.op # "idle"
    /\ ret' = Idle
    /\ UNCHANGED <<trades, clock, calls>>

Next == RecordTrade \/ VolumeWeightStockPrice \/ AllShareIndex \/ Tick \/ Continue

Spec == Init /\ [][Next]_vars

\* stock.dividend_yield(price) on a newly constructed stock
DividendYield ==
    /\ ret.op = "idle"
    /\ \E kind \in StockKinds, symbol \in StockSymbols, pv \in ParValues,
          ld \in LastDividends, fd \in FixedDividends,
          price \in (-MaxPrice)..MaxPrice :
          LET stock == IF kind = "common"
                       THEN CommonTypeStock(symbol, pv, ld, fd)
                       ELSE PreferredTypeStock(symbol, pv, ld, fd)
          IN  ret' = [Idle EXCEPT !.op = "dividend_yield",
                                  !.symbol = symbol,
                                  !.stock = stock,
                                  !.price = price,
                                  !.result = dividend_yield(stock, price)]
    /\ UNCHANGED <<trades, clock, calls>>

\* stock.pe_ratio(price) on a newly constructed stock
PeRatio ==
    /\ ret.op = "idle"
    /\ \E kind \in StockKinds, symbol \in StockSymbols, pv \in ParValues,
          ld \in LastDividends, fd \in FixedDividends,
          price \in (-MaxPrice)..MaxPrice :
          LET stock == IF kind = "common"
                       THEN CommonTypeStock(symbol, pv, ld, fd)
                       ELSE PreferredTypeStock(symbol, pv, ld, fd)
          IN  ret' = [Idle EXCEPT !.op = "pe_ratio",
                                  !.symbol = symbol,
                                  !.stock = stock,
                                  !.price = price,
                                  !.result = pe_ratio(stock, price)]
    /\ UNCHANGED <<trades, clock, calls>>

StockNext == DividendYield \/ PeRatio \/ Continue

StockSpec == Init /\ [][StockNext]_vars

(* ------------------------- helpers of the claims ----------------------- *)

LowerCaseLetters == {"a", "e", "l", "o", "p", "t"}

LowerChar(c) ==
    CASE c = "A" -> "a"
      [] c = "E" -> "e"
      [] c = "L" -> "l"
      [] c = "O" -> "o"
      [] c = "P" -> "p"
      [] c = "T" -> "t"
      [] OTHER -> c

\* every upper/lower-case spelling of symbol s
RECURSIVE Spellings(_)
Spellings(s) ==
    IF s = <<>> THEN {<<>>}
    ELSE {<<c>> \o v : c \in {UpperChar(Head(s)), LowerChar(Head(s))},
                       v \in Spellings(Tail(s))}

HasNoLowerCase(s) == \A i \in DOMAIN s : s[i] \notin LowerCaseLetters

RECURSIVE SumOver(_, _)
SumOver(S, f) ==
    IF S = {} THEN 0
    ELSE LET i == CHOOSE x \in S : TRUE IN f[i] + SumOver(S \ {i}, f)

\* the product of the volume-weighted prices of the symbols in syms, each
\* taken over all the trades of that symbol in the log
RECURSIVE ProductOfGroups(_, _)
ProductOfGroups(syms, trs) ==
    IF syms = {} THEN PyInt(1)
    ELSE LET s == CHOOSE x \in syms : TRUE
             group == Sublist(trs, {i \in 1..Len(trs) : trs[i].stock.symbol = s})
         IN  PyMul(vwap(group), ProductOfGroups(syms \ {s}, trs))

SymbolsOf(trs) == {trs[i].stock.symbol : i \in 1..Len(trs)}

AllPositive(trs) ==
    \A i \in 1..Len(trs) : trs[i].quantity > 0 /\ trs[i].price > 0

\* sum(price * quantity) / sum(quantity) over the positions S of the log
VwapOver(trs, S) ==
    PyDiv(PyInt(SumOver(S, [i \in 1..Len(trs) |-> trs[i].price * trs[i].quantity])),
          PyInt(SumOver(S, [i \in 1..Len(trs) |-> trs[i].quantity])))

\* the positions of the trades of symbol with a timestamp in
\* [now - duration, now]
WindowAt(trs, symbol, duration, now) ==
    {i \in 1..Len(trs) : /\ Upper(trs[i].stock.symbol) = Upper(symbol)
                         /\ trs[i].timestamp >= now - duration
                         /\ trs[i].timestamp <= now}

(* ------------------------------- claims -------------------------------- *)

\* C1: all_share_index forms exactly one group per distinct symbol, takes
\* each group's volume-weighted price over all the trades of that symbol
\* wherever they are in the log, and returns the n-th root of the product
\* of these prices, n being the number of distinct symbols.
C1_GroupBySymbol ==
    (ret.op = "all_share_index" /\ trades # <<>> /\ AllPositive(trades)) =>
        /\ Len(ret.vwap_calls) = Cardinality(SymbolsOf(trades))
        /\ ret.result = PyRoot(ProductOfGroups(SymbolsOf(trades), trades),
                               Cardinality(SymbolsOf(trades)))

\* C2: every step leaves the log as it was or appends to it, so that the
\* old log is a prefix of the new one, and the log is always the sequence
\* of the trades passed to record_trade, in call order.
C2_AppendOnly ==
    [][/\ Len(trades) <= Len(trades')
       /\ SubSeq(trades', 1, Len(trades)) = trades
       /\ trades' = calls']_vars

C2_Witness ==
    /\ Len(trades) >= 2
    /\ trades[1] = trades[2]
    /\ ret.op = "all_share_index"

\* C3: for one evaluation time now of the call, volume_weight_stock_price
\* returns None when no trade of the symbol has a timestamp in
\* [now - duration, now], and otherwise sum(price * quantity) /
\* sum(quantity) over exactly the trades of the symbol in that window.
C3_WindowedVwap ==
    ret.op = "volume_weight_stock_price" =>
        \E now \in ret.now..clock :
            LET S == WindowAt(trades, ret.symbol, ret.duration, now)
            IN  IF S = {} THEN ret.result = NoneVal
                ELSE ret.result = VwapOver(trades, S)

\* C4: dividend_yield raises for every price <= 0.
C4_NonPositivePriceRaises ==
    (ret.op = "dividend_yield" /\ ret.price <= 0) => ret.result.kind = "raise"

\* C5: for a price p > 0, pe_ratio(p) is the number r with
\* r * dividend_yield(p) = 1 when dividend_yield(p) is a non-zero number,
\* and pe_ratio(p) raises when dividend_yield(p) is zero.
C5_PeRatio ==
    (ret.op = "pe_ratio" /\ ret.price > 0) =>
        LET dy == dividend_yield(ret.stock, ret.price)
        IN  /\ (dy.kind = "num" /\ dy.val[1] # 0) =>
                   /\ ret.result.kind = "num"
                   /\ QMul(ret.result.val, dy.val) = Int2Q(1)
            /\ (dy.kind = "num" /\ dy.val[1] = 0) => ret.result.kind = "raise"

C5_Witness ==
    /\ ret.op = "pe_ratio"
    /\ ret.price > 0
    /\ ret.stock.kind = "preferred"
    /\ ret.stock.fixed_dividend = PyInt(0)
    /\ ret.stock.par_value.kind = "num"
    /\ ret.result = Raise("ZeroDivisionError")

\* C6: for a price p > 0, a common stock's dividend_yield(p) is
\* last_dividend / p whatever its fixed_dividend and par_value are, and a
\* preferred stock's is fixed_dividend * par_value / p whatever its
\* last_dividend is.
C6_DividendYield ==
    (ret.op = "dividend_yield" /\ ret.price > 0) =>
        LET s == ret.stock
            p == Int2Q(ret.price)
        IN  /\ (s.kind = "common" /\ s.last_dividend.kind = "num") =>
                   /\ ret.result.kind = "num"
                   /\ QMul(ret.result.val, p) = s.last_dividend.val
                   /\ \A pv \in ParValues, fd \in FixedDividends :
                          dividend_yield(
                              CommonTypeStock(s.symbol, pv, s.last_dividend, fd),
                              ret.price) = ret.result
            /\ (s.kind = "preferred" /\ s.fixed_dividend.kind = "num"
                                     /\ s.par_value.kind = "num") =>
                   /\ ret.result.kind = "num"
                   /\ QMul(ret.result.val, p)
                          = QMul(s.fixed_dividend.val, s.par_value.val)
                   /\ \A ld \in LastDividends :
                          dividend_yield(
                              PreferredTypeStock(s.symbol, s.par_value, ld,
                                                 s.fixed_dividend),
                              ret.price) = ret.result

C6_Witness ==
    /\ ret.op = "dividend_yield"
    /\ ret.price > 1
    /\ ret.stock.kind = "preferred"
    /\ ret.stock.last_dividend.kind = "num"
    /\ ret.result.kind = "num"
    /\ ret.result.val[1] # 0

\* C7: a Stock stores its symbol in upper case whatever case it was
\* constructed with, and volume_weight_stock_price selects the same trades
\* and returns the same result for every upper/lower-case spelling of the
\* queried symbol and of the symbol a traded Stock was constructed with.
C7_CaseInsensitive ==
    /\ \A i \in 1..Len(trades) : HasNoLowerCase(trades[i].stock.symbol)
    /\ ret.op = "record_trade" =>
          /\ trades[Len(trades)].stock = ret.stock
          /\ \A sp \in Spellings(ret.symbol) :
                 CommonTypeStock(sp, ret.stock.par_value, ret.stock.last_dividend,
                                 ret.stock.fixed_dividend) = ret.stock
    /\ ret.op = "volume_weight_stock_price" =>
          \A sp \in Spellings(ret.symbol) :
              LET r == volume_weight_stock_price(trades, sp, ret.duration, ret.nows)
              IN  r.selected = ret.selected /\ r.result = ret.result

C7_Witness ==
    /\ ret.op = "volume_weight_stock_price"
    /\ ret.symbol # Upper(ret.symbol)
    /\ ret.selected # {}
    /\ ret.result.kind = "num"

\* C8 as stated: every trade in the log has quantity > 0 and price > 0.
C8_PositiveTrades == AllPositive(trades)

\* C8 as amended: Trade construction validates nothing; the trade recorded
\* holds the quantity and the price the caller gave, positive or not, and
\* vwap raises ZeroDivisionError on a selection whose total quantity is 0.
C8_TradeStoredAsGiven ==
    /\ ret.op = "record_trade" =>
          LET t == trades[Len(trades)]
          IN  /\ t.quantity = ret.quantity
              /\ t.price = ret.price
              /\ t.trade_type = ret.trade_type
              /\ t.stock = ret.stock
              /\ t.timestamp = ret.now
    /\ (ret.op = "volume_weight_stock_price" /\ ret.selected # {}
          /\ SumOver(ret.selected, [i \in 1..Len(trades) |-> trades[i].quantity]) = 0)
          => ret.result = Raise("ZeroDivisionError")

C8_Witness ==
    /\ ret.op = "volume_weight_stock_price"
    /\ ret.selected # {}
    /\ \E i \in ret.selected : trades[i].quantity <= 0 /\ trades[i].price <= 0
    /\ ret.result = Raise("ZeroDivisionError")

\* C9: no call of vwap made by volume_weight_stock_price or by
\* all_share_index gets an empty list; volume_weight_stock_price returns
\* None when it selects nothing and all_share_index when the log is empty.
C9_NoEmptyVwap ==
    /\ \A k \in DOMAIN ret.vwap_calls : ret.vwap_calls[k] # <<>>
    /\ (ret.op = "volume_weight_stock_price" /\ ret.selected = {}) =>
          ret.result = NoneVal /\ ret.vwap_calls = <<>>
    /\ (ret.op = "volume_weight_stock_price" /\ ret.selected # {}) =>
          Len(ret.vwap_calls) = 1
    /\ (ret.op = "all_share_index" /\ trades = <<>>) =>
          ret.result = NoneVal /\ ret.vwap_calls = <<>>
    /\ (ret.op = "all_share_index" /\ trades # <<>>) => ret.vwap_calls # <<>>

C9_Witness ==
    /\ ret.op = "volume_weight_stock_price"
    /\ trades # <<>>
    /\ ret.selected = {}
    /\ ret.result = NoneVal

\* C10: one call of volume_weight_stock_price tests every trade against
\* the same lower bound, so two trades with the same symbol and the same
\* timestamp are both selected or both left out.
C10_SingleNow ==
    ret.op = "volume_weight_stock_price" =>
        \A i, j \in 1..Len(trades) :
            (/\ trades[i].stock.symbol = trades[j].stock.symbol
             /\ trades[i].timestamp = trades[j].timestamp)
            => (i \in ret.selected <=> j \in ret.selected)

====
